---- MODULE Spec2Model ----
(***************************************************************************)
(* A model of goleak: the option/filter/retry engine of options.go, the    *)
(* stack-dump parser of internal/stack/stacks.go, and the detection loop   *)
(* that combines them.                                                     *)
(*                                                                         *)
(* Strings are TLA+ strings; Go's byte offsets are 0-based, SubSeq is      *)
(* 1-based, and the helpers below convert.  time.Duration and int are      *)
(* 64-bit two's-complement words, modelled as the set of their 1-bits so   *)
(* that the shift in opts.retry overflows as it does in the program.       *)
(***************************************************************************)
EXTENDS Integers, Sequences, FiniteSets, TLC

VARIABLES
    o,          \* the *opts under use: [filters, maxRetries, maxSleep, cleanup]
    calls,      \* number of o.retry calls made by the retry driver
    continues,  \* the boolean each o.retry call returned, in call order
    sleeps,     \* every duration passed to time.Sleep, in call order
    pc,         \* position of the detection run
    units,      \* the program's goroutines: id -> shape, "none" when not alive
    nextId,     \* the id the next spawned goroutine gets
    optionList, \* the Options created so far, in the order they will be applied
    cur,        \* id of the goroutine running detection, from stack.Current()
    stacks,     \* the records left by filterStacks in the latest snapshot
    attempt,    \* the loop counter i of the detection run
    snapshots,  \* number of stack.All() captures the run has made
    last,       \* history: ids of the true candidates of the latest snapshot
    report,     \* the leak report of a run that ended in done-leak
    subject,    \* the record handed to o.filter by the filter driver
    verdict,    \* <<b>> once o.filter has returned b for it, <<>> before
    input,      \* the lines of the text handed to the parser
    readErr,    \* whether reading the text ends in an error instead of EOF
    parser,     \* the stackParser: scanner position, stacks, errors
    result,     \* <<r>> once Parse has returned r, <<>> before
    captured,   \* <<c>> once getStacks has ended with c on that result
    asked,      \* <<a>> once HasFunction has answered a for a record, <<>> before
    lineIn,     \* the line handed to the line parsers by the line driver
    parsed,     \* <<r>> once a line parser has returned r for it, <<>> before
    bufSize,    \* the size i of the buffer getStackBuffer is trying
    dumpLen,    \* history: the length of the dump at the latest runtime.Stack
    returned,   \* <<n>> once getStackBuffer has returned buf[:n], <<>> before
    single,     \* <<r>> once one filter of o.filters was called on its own
    prev        \* how the previous run of Find ended, "none" in the first

vars == <<o, calls, continues, sleeps, pc, units, nextId, optionList, cur,
          stacks, attempt, snapshots, last, report,
          subject, verdict, input, readErr, parser, result, captured, asked,
          lineIn, parsed, bufSize, dumpLen, returned, single, prev>>

driverVars == <<calls, continues>>

detectVars == <<pc, units, nextId, optionList, cur, stacks, attempt,
                snapshots, last, report, prev>>

filterVars == <<subject, verdict, single>>

parseVars == <<input, readErr, parser, result, captured, asked>>

lineVars == <<lineIn, parsed>>

bufferVars == <<bufSize, dumpLen, returned>>

\* What no step of a detection run but the start of a second run changes.
otherVars == <<driverVars, filterVars, parseVars, lineVars, bufferVars, prev>>

-----------------------------------------------------------------------------
(* Bounds of the model *)

\* Largest retry bound a configuration is given.
MaxRetriesBound == 66
\* Number of o.retry calls the retry driver makes beyond MaxRetriesBound.
ExtraCalls == 3
\* Sleep ceilings (nanoseconds) a configuration is given.
SleepValues == {3000, 100000, 1000000}
\* Largest retry bound given to a detection run.
MaxDetectRetries == 2
\* Number of goroutines the program spawns besides the two initial ones.
MaxSpawns == 1

-----------------------------------------------------------------------------
(* 64-bit machine words *)

\* Width of Go's int and of time.Duration (int64) on a 64-bit platform.
IntBits == 64
\* int(time.Microsecond): a Duration counts nanoseconds.
Microsecond == 1000

RECURSIVE Pow2(_)
Pow2(n) == IF n = 0 THEN 1 ELSE 2 * Pow2(n - 1)

\* The word of an integer n with -2^30 <= n < 2^30 (two's complement).
ToWord(n) ==
    IF n >= 0
    THEN {b \in 0..30 : (n \div Pow2(b)) % 2 = 1}
    ELSE {b \in 0..30 : ((n + Pow2(30) + Pow2(30)) \div Pow2(b)) % 2 = 1}
         \cup 31..(IntBits - 1)

IsNeg(w) == (IntBits - 1) \in w

\* a > b on unsigned words: the highest bit where they differ is set in a.
UGt(a, b) ==
    \E k \in a \ b : \A j \in (k + 1)..(IntBits - 1) : (j \in a) <=> (j \in b)

\* a > b on signed words.
Gt(a, b) ==
    IF IsNeg(a) # IsNeg(b) THEN IsNeg(b) ELSE UGt(a, b)

\* w << i as Go computes it: bits shifted past the width are lost, and a
\* count of IntBits or more gives 0.
Shl(w, i) ==
    IF i >= IntBits THEN {}
    ELSE {b + i : b \in {c \in w : c + i < IntBits}}

-----------------------------------------------------------------------------
(* Go's strings and strconv packages, as far as the program uses them *)

\* The first offset k or later (0-based) at which sub occurs in s, or -1.
RECURSIVE IndexFrom(_, _, _)
IndexFrom(s, sub, k) ==
    IF k + Len(sub) > Len(s) THEN -1
    ELSE IF SubSeq(s, k + 1, k + Len(sub)) = sub THEN k
    ELSE IndexFrom(s, sub, k + 1)

\* The last offset k or earlier (0-based) at which sub occurs in s, or -1.
RECURSIVE LastIndexFrom(_, _, _)
LastIndexFrom(s, sub, k) ==
    IF k < 0 THEN -1
    ELSE IF SubSeq(s, k + 1, k + Len(sub)) = sub THEN k
    ELSE LastIndexFrom(s, sub, k - 1)

Index(s, sub) == IndexFrom(s, sub, 0)

LastIndex(s, sub) == LastIndexFrom(s, sub, Len(s) - Len(sub))

Contains(s, sub) ==
    \E k \in 0..(Len(s) - Len(sub)) : SubSeq(s, k + 1, k + Len(sub)) = sub

HasPrefix(s, prefix) ==
    Len(s) >= Len(prefix) /\ SubSeq(s, 1, Len(prefix)) = prefix

HasSuffix(s, suffix) ==
    Len(s) >= Len(suffix) /\ SubSeq(s, Len(s) - Len(suffix) + 1, Len(s)) = suffix

TrimPrefix(s, prefix) ==
    IF HasPrefix(s, prefix) THEN SubSeq(s, Len(prefix) + 1, Len(s)) ELSE s

TrimSuffix(s, suffix) ==
    IF HasSuffix(s, suffix) THEN SubSeq(s, 1, Len(s) - Len(suffix)) ELSE s

\* strings.SplitN(s, sep, n) for n > 0 and a non-empty sep.
RECURSIVE SplitN(_, _, _)
RECURSIVE SplitAt(_, _, _, _)
SplitN(s, sep, n) ==
    IF n = 1 THEN <<s>> ELSE SplitAt(s, sep, n, Index(s, sep))

\* SplitN, given the offset idx of the first sep in s (-1 when there is none).
SplitAt(s, sep, n, idx) ==
    IF idx = -1 THEN <<s>>
    ELSE <<SubSeq(s, 1, idx)>>
         \o SplitN(SubSeq(s, idx + Len(sep) + 1, Len(s)), sep, n - 1)

WhiteSpace == {" ", "\t", "\n", "\r"}

RECURSIVE TrimLeft(_)
TrimLeft(s) ==
    IF Len(s) > 0 /\ SubSeq(s, 1, 1) \in WhiteSpace
    THEN TrimLeft(SubSeq(s, 2, Len(s))) ELSE s

RECURSIVE TrimRight(_)
TrimRight(s) ==
    IF Len(s) > 0 /\ SubSeq(s, Len(s), Len(s)) \in WhiteSpace
    THEN TrimRight(SubSeq(s, 1, Len(s) - 1)) ELSE s

TrimSpace(s) == TrimRight(TrimLeft(s))

Digits == <<"0", "1", "2", "3", "4", "5", "6", "7", "8", "9">>

IsDigit(c) == \E d \in 1..10 : Digits[d] = c

DigitVal(c) == (CHOOSE d \in 1..10 : Digits[d] = c) - 1

RECURSIVE DigitsVal(_, _)
DigitsVal(s, acc) ==
    IF s = "" THEN acc
    ELSE DigitsVal(SubSeq(s, 2, Len(s)), 10 * acc + DigitVal(SubSeq(s, 1, 1)))

\* strconv.Atoi for numbers short enough not to overflow: an optional sign
\* and at least one decimal digit.
\* Atoi, given whether s has a sign and the text ds after the sign.
AtoiDigits(s, signed, ds) ==
    IF ds = "" \/ \E i \in 1..Len(ds) : ~IsDigit(SubSeq(ds, i, i))
    THEN [ok |-> FALSE, val |-> 0]
    ELSE [ok |-> TRUE,
          val |-> IF signed /\ SubSeq(s, 1, 1) = "-"
                  THEN 0 - DigitsVal(ds, 0) ELSE DigitsVal(ds, 0)]

Atoi(s) ==
    IF Len(s) > 0 /\ SubSeq(s, 1, 1) \in {"+", "-"}
    THEN AtoiDigits(s, TRUE, SubSeq(s, 2, Len(s)))
    ELSE AtoiDigits(s, FALSE, s)

\* fmt's %q of a string without characters that need escaping.
Quote(s) == "\"" \o s \o "\""

\* nil (no error); an error is its message.
nil == "<nil>"

-----------------------------------------------------------------------------
(* internal/stack/stacks.go: the parser *)

\* parseFirstFunc, given the trimmed line and the offset idx of its last "(".
firstFuncAt(line, idx) ==
    IF idx > 0
    THEN [fn |-> SubSeq(line, 1, idx), err |-> nil]
    ELSE [fn |-> "", err |-> "no function found: " \o Quote(line)]

lastParen(line) == firstFuncAt(line, LastIndex(line, "("))

parseFirstFunc(line) == lastParen(TrimSpace(line))

\* The end of parseGoStackHeader, given strconv.Atoi(parts[1]).
headerID(line, parts, id) ==
    IF ~id.ok
    THEN [id |-> 0, state |-> "",
          err |-> "bad goroutine ID " \o Quote(parts[2])
                  \o " in line " \o Quote(line)]
    ELSE [id |-> id.val,
          state |-> TrimSuffix(TrimPrefix(parts[3], "["), "]"),
          err |-> nil]

\* parseGoStackHeader, given the trimmed line and its parts; Go counts the
\* parts from 0, a TLA+ sequence from 1.
headerParts(line, parts) ==
    IF Len(parts) # 3
    THEN [id |-> 0, state |-> "", err |-> "unexpected format: " \o Quote(line)]
    ELSE headerID(line, parts, Atoi(parts[2]))

splitHeader(line) == headerParts(line, SplitN(line, " ", 3))

\* parseGoStackHeader that leaves the colon at the end of the line.
parseGoStackHeader_keepsColon(line) == splitHeader(TrimSuffix(line, "\n"))

parseGoStackHeader(line) ==
    splitHeader(TrimSuffix(TrimSuffix(line, ":"), "\n"))

\* The scanner over the lines of the input: Scan reports whether a line is
\* available and moves to it, Text is that line, and Unscan makes the next
\* Scan deliver the same line again.
newStackParser(lines) ==
    [lines |-> lines, pos |-> 0, unscanned |-> FALSE,
     stacks |-> <<>>, errors |-> <<>>]

CanScan(p) == p.unscanned \/ p.pos < Len(p.lines)

Scan(p) ==
    IF p.unscanned THEN [p EXCEPT !.unscanned = FALSE]
    ELSE [p EXCEPT !.pos = p.pos + 1]

Text(p) == p.lines[p.pos]

Unscan(p) == [p EXCEPT !.unscanned = TRUE]

RECURSIVE readBody(_, _, _)
RECURSIVE bodyLine(_, _, _, _)
RECURSIVE bodyFirst(_, _, _, _)

\* The loop of parseStack that reads the lines after the header; p is the
\* parser, firstFunction and fullStack the loop's variables.
readBody(p, firstFunction, fullStack) ==
    IF ~CanScan(p)
    THEN [p |-> p, firstFunction |-> firstFunction,
          fullStack |-> fullStack, err |-> nil]
    ELSE bodyLine(Scan(p), Text(Scan(p)), firstFunction, fullStack)

\* The body of that loop without the Unscan at a header.
bodyLine_noUnscan(p, line, firstFunction, fullStack) ==
    IF HasPrefix(line, "goroutine ")
    THEN [p |-> p, firstFunction |-> firstFunction,
          fullStack |-> fullStack, err |-> nil]
    ELSE IF firstFunction = ""
    THEN bodyFirst(p, parseFirstFunc(line), line, fullStack \o line \o "\n")
    ELSE readBody(p, firstFunction, fullStack \o line \o "\n")

\* The body of that loop for the line just scanned.
bodyLine(p, line, firstFunction, fullStack) ==
    IF HasPrefix(line, "goroutine ")
    THEN [p |-> Unscan(p), firstFunction |-> firstFunction,
          fullStack |-> fullStack, err |-> nil]
    ELSE IF firstFunction = ""
    THEN bodyFirst(p, parseFirstFunc(line), line, fullStack \o line \o "\n")
    ELSE readBody(p, firstFunction, fullStack \o line \o "\n")

\* The line was the first after the header; f is parseFirstFunc(line).
bodyFirst(p, f, line, fullStack) ==
    IF f.err # nil
    THEN [p |-> p, firstFunction |-> "", fullStack |-> fullStack,
          err |-> "extract function: " \o f.err]
    ELSE readBody(p, f.fn, fullStack)

\* The end of parseStack, given the result b of the loop.
stackOf(h, b) ==
    IF b.err # nil
    THEN [p |-> b.p, stack |-> <<>>, err |-> b.err]
    ELSE [p |-> b.p,
          stack |-> [id |-> h.id, state |-> h.state,
                     firstFunction |-> b.firstFunction,
                     fullStack |-> b.fullStack],
          err |-> nil]

\* parseStack, given the result h of parseGoStackHeader(line).
stackAfterHeader(p, h) ==
    IF h.err # nil
    THEN [p |-> p, stack |-> <<>>, err |-> "parse header: " \o h.err]
    ELSE stackOf(h, readBody(p, "", ""))

parseStack(p, line) == stackAfterHeader(p, parseGoStackHeader(line))

\* Parse's handling of the result r of parseStack.
keepStack(r) ==
    IF r.err # nil
    THEN [r.p EXCEPT !.errors = Append(@, r.err)]
    ELSE [r.p EXCEPT !.stacks = Append(@, r.stack)]

\* The body of the loop of Parse for the line just scanned.
parseLine(p, line) ==
    IF HasPrefix(line, "goroutine ")
    THEN keepStack(parseStack(p, line))
    ELSE p

\* One iteration of the loop of Parse; CanScan(p) holds.
ParseIter(p) == parseLine(Scan(p), Text(Scan(p)))

\* errors.Join: an error that wraps the non-nil arguments, modelled as their
\* sequence; nil, the empty sequence, when every argument is nil.
RECURSIVE NonNil(_)
NonNil(errs) ==
    IF errs = <<>> THEN <<>>
    ELSE IF Head(errs) = nil THEN NonNil(Tail(errs))
    ELSE <<Head(errs)>> \o NonNil(Tail(errs))

Join(errs) == NonNil(errs)

\* The end of Parse, once Scan has returned false; scanErr is p.scan.Err().
ParseReturn(p, scanErr) ==
    [stacks |-> p.stacks, err |-> Join(Append(p.errors, scanErr))]

RECURSIVE ParseLoop(_)
ParseLoop(p) == IF CanScan(p) THEN ParseLoop(ParseIter(p)) ELSE p

Parse(lines, scanErr) == ParseReturn(ParseLoop(newStackParser(lines)), scanErr)

-----------------------------------------------------------------------------
(* The program under test and the dump the runtime writes for it *)

Shapes == {"busy", "wait", "leak"}

\* What a goroutine of each shape looks like in a dump: its state, the
\* function of its top frame, and the lines after its header.
ShapeOf(name) ==
    CASE name = "self" ->
           [state |-> "running",
            top |-> "go.uber.org/goleak/internal/stack.getStackBuffer",
            body |-> <<"go.uber.org/goleak/internal/stack.getStackBuffer(0x1)",
                       "\t/goleak/internal/stack/stacks.go:173 +0x5c">>]
      [] name = "busy" ->
           [state |-> "running",
            top |-> "testing.(*T).Run",
            body |-> <<"testing.(*T).Run(0xc000, 0x1)",
                       "\t/go/src/testing/testing.go:1750 +0x3ab">>]
      [] name = "wait" ->
           [state |-> "chan receive, 2 minutes",
            top |-> "testing.(*T).Run",
            body |-> <<"testing.(*T).Run(0xc000, 0x1)",
                       "\t/go/src/testing/testing.go:1750 +0x3ab">>]
      [] name = "leak" ->
           [state |-> "chan receive",
            top |-> "main.worker",
            body |-> <<"main.worker(0x2)",
                       "\t/app/main.go:10 +0x1d",
                       "created by main.start in goroutine 1",
                       "\t/app/main.go:5 +0x2a">>]

UnitIds == 1..(2 + MaxSpawns)

\* The goroutine that configures and runs detection.
Self == 2

Alive(us) == {id \in UnitIds : us[id] # "none"}

RECURSIVE Itoa(_)
Itoa(n) == IF n < 10 THEN Digits[n + 1] ELSE Itoa(n \div 10) \o Digits[(n % 10) + 1]

\* The lines the runtime writes for goroutine id.
DumpRecord(us, id) ==
    <<"goroutine " \o Itoa(id) \o " [" \o ShapeOf(us[id]).state \o "]:">>
    \o ShapeOf(us[id]).body

RECURSIVE DumpRecords(_, _)
DumpRecords(us, ids) ==
    IF ids = <<>> THEN <<>>
    ELSE <<"">> \o DumpRecord(us, Head(ids)) \o DumpRecords(us, Tail(ids))

\* The orders in which the runtime may list the goroutines other than the
\* caller.
Orders(us) ==
    LET others == Alive(us) \ {Self}
    IN  {ord \in [1..Cardinality(others) -> others] :
            \A a, b \in 1..Cardinality(others) : a # b => ord[a] # ord[b]}

\* runtime.Stack(buf, all): the caller's record, then with all every other
\* goroutine's record, with an empty line before each.
runtimeStack(us, all, order) ==
    DumpRecord(us, Self) \o (IF all THEN DumpRecords(us, order) ELSE <<>>)

_defaultBufferSize == 64 * 1024

\* runtime.Stack(buf, all) for a dump of length bytes and a buffer of size
\* bytes: the number of bytes written, the dump cut to the buffer.
written(length, size) == IF length < size THEN length ELSE size

\* One iteration of getStackBuffer that also returns a full buffer.
tryBuffer_orEqual(i, n) ==
    IF n <= i THEN [done |-> TRUE, i |-> i, n |-> n]
    ELSE [done |-> FALSE, i |-> i * 2, n |-> 0]

\* One iteration of the loop of getStackBuffer: i is the buffer size and n
\* what runtime.Stack wrote; it returns buf[:n] or goes on with i * 2.
tryBuffer(i, n) ==
    IF n < i THEN [done |-> TRUE, i |-> i, n |-> n]
    ELSE [done |-> FALSE, i |-> i * 2, n |-> 0]

\* The buffer holds the whole dump.
getStackBuffer(us, all, order) == runtimeStack(us, all, order)

\* getStacks that returns the records whatever the error.
stacksOrPanic_swallows(r) == [panicked |-> FALSE, stacks |-> r.stacks]

\* getStacks(all), given the result r of Parse: the records, or a panic when
\* the dump fails to parse; a panic returns nothing to the caller.
stacksOrPanic(r) ==
    IF r.err # <<>> THEN [panicked |-> TRUE, stacks |-> <<>>]
    ELSE [panicked |-> FALSE, stacks |-> r.stacks]

getStacks(us, all, order) ==
    stacksOrPanic(Parse(getStackBuffer(us, all, order), nil))

All(us, order) == getStacks(us, TRUE, order)

\* Current that takes the last record of the dump of all goroutines.
Current_lastOfAll(us) ==
    LET order == CHOOSE ord \in Orders(us) : TRUE
    IN  getStacks(us, TRUE, order).stacks[Len(getStacks(us, TRUE, order).stacks)]

Current(us) == getStacks(us, FALSE, <<>>).stacks[1]

\* The lines of a text in which every line ends with a newline.
RECURSIVE SplitLines(_)
SplitLines(text) ==
    IF text = "" THEN <<>>
    ELSE <<SubSeq(text, 1, Index(text, "\n"))>>
         \o SplitLines(SubSeq(text, Index(text, "\n") + 2, Len(text)))

\* The function of a "created by" line: what follows "created by ", less
\* " in goroutine N".
createdBy(rest) ==
    IF Index(rest, " in goroutine ") >= 0
    THEN SubSeq(rest, 1, Index(rest, " in goroutine "))
    ELSE rest

\* The function names of one line: that of a "created by" line, that of a
\* normal call line, none for any other line.
lineFunctions(line) ==
    IF HasPrefix(line, "created by ")
    THEN {createdBy(TrimPrefix(line, "created by "))}
    ELSE IF parseFirstFunc(line).err = nil THEN {parseFirstFunc(line).fn}
    ELSE {}

\* allFunctions: every function name seen on a call-type line of the
\* record, normal or "created by".
allFunctions(s) ==
    UNION {lineFunctions(SplitLines(s.fullStack)[j]) :
              j \in 1..Len(SplitLines(s.fullStack))}

\* s.HasFunction(name): the membership query on allFunctions.
HasFunction(s, name) == name \in allFunctions(s)

-----------------------------------------------------------------------------
(* options.go: the configuration *)

_defaultRetryAttempts == 20
_defaultSleepInterval == 100 * Microsecond

MaxSleepInterval(d) == [op |-> "MaxSleepInterval", d |-> d]
MaxRetryAttempts(num) == [op |-> "MaxRetryAttempts", num |-> num]

\* An *opts used as an Option.
asOption(o1) == [op |-> "opts", o |-> o1]

\* option.apply(opts) where addFilter puts the filter in front.
apply_prepends(option, opts) ==
    CASE option.op = "MaxSleepInterval" -> [opts EXCEPT !.maxSleep = option.d]
      [] option.op = "MaxRetryAttempts" -> [opts EXCEPT !.maxRetries = option.num]
      [] option.op = "addFilter" ->
            [opts EXCEPT !.filters = <<option.f>> \o opts.filters]
      [] option.op = "Cleanup" -> [opts EXCEPT !.cleanup = TRUE]
      [] option.op = "opts" ->
            [filters |-> option.o.filters, maxRetries |-> option.o.maxRetries,
             maxSleep |-> option.o.maxSleep, cleanup |-> option.o.cleanup]

\* option.apply(opts) for each kind of Option; an *opts applied as an
\* Option assigns its four fields to the target.
apply(option, opts) ==
    CASE option.op = "MaxSleepInterval" -> [opts EXCEPT !.maxSleep = option.d]
      [] option.op = "MaxRetryAttempts" -> [opts EXCEPT !.maxRetries = option.num]
      [] option.op = "addFilter" ->
            [opts EXCEPT !.filters = Append(opts.filters, option.f)]
      [] option.op = "Cleanup" -> [opts EXCEPT !.cleanup = TRUE]
      [] option.op = "opts" ->
            [filters |-> option.o.filters, maxRetries |-> option.o.maxRetries,
             maxSleep |-> option.o.maxSleep, cleanup |-> option.o.cleanup]

RECURSIVE applyAll(_, _)
applyAll(options, opts) ==
    IF options = <<>> THEN opts
    ELSE applyAll(Tail(options), apply(Head(options), opts))

DefaultFilters ==
    << [kind |-> "isTestStack"], [kind |-> "isSyscallStack"],
       [kind |-> "isStdLibStack"], [kind |-> "isTraceStack"] >>

buildOpts(options) ==
    applyAll(options,
             [filters |-> DefaultFilters,
              maxRetries |-> _defaultRetryAttempts,
              maxSleep |-> _defaultSleepInterval,
              cleanup |-> FALSE])

\* validate that also refuses a retry bound of 0.
validate_rejectsZero(opts) ==
    IF opts.maxRetries <= 0 THEN "maxRetryAttempts should be greater than 0"
    ELSE IF opts.maxSleep <= 0 THEN "maxSleepInterval should be greater than 0s"
    ELSE nil

validate(opts) ==
    IF opts.maxRetries < 0 THEN "maxRetryAttempts should be greater than 0"
    ELSE IF opts.maxSleep <= 0 THEN "maxSleepInterval should be greater than 0s"
    ELSE nil

-----------------------------------------------------------------------------
(* options.go: the filters *)

\* isTestStack without the test of the state.
isTestStack_anyState(s) ==
    s.firstFunction \in {"testing.RunTests", "testing.(*T).Run",
                         "testing.(*T).Parallel", "testing.runFuzzing",
                         "testing.runFuzzTests"}

\* isTestStack as it was before the fuzzing functions were added.
isTestStack_noFuzz(s) ==
    IF s.firstFunction \in {"testing.RunTests", "testing.(*T).Run",
                            "testing.(*T).Parallel"}
    THEN HasPrefix(s.state, "chan receive")
    ELSE FALSE

isTestStack(s) ==
    IF s.firstFunction \in {"testing.RunTests", "testing.(*T).Run",
                            "testing.(*T).Parallel", "testing.runFuzzing",
                            "testing.runFuzzTests"}
    THEN HasPrefix(s.state, "chan receive")
    ELSE FALSE

isSyscallStack(s) ==
    s.firstFunction = "runtime.goexit" /\ HasPrefix(s.state, "syscall")

isStdLibStack(s) ==
    IF s.firstFunction = "os/signal.signal_recv"
       \/ s.firstFunction = "os/signal.loop"
    THEN TRUE
    ELSE Contains(s.fullStack, "runtime.ensureSigM")

\* The trace filter: a record of the execution tracer's reader goroutine.
isTraceStack(s) == Contains(s.fullStack, "runtime.ReadTrace")

addFilter(f) == [op |-> "addFilter", f |-> f]

IgnoreTopFunction(f) == addFilter([kind |-> "IgnoreTopFunction", f |-> f])

\* IgnoreCurrent that leaves the last captured record out of the set.
IgnoreCurrent_dropsLast(all) ==
    addFilter([kind |-> "IgnoreCurrent",
               excludeIDSet |-> {all[k].id : k \in 1..(Len(all) - 1)}])

\* IgnoreCurrent, given what stack.All() returned when the option was made.
IgnoreCurrent(all) ==
    addFilter([kind |-> "IgnoreCurrent",
               excludeIDSet |-> {all[k].id : k \in 1..Len(all)}])

\* The call f(s) where IgnoreTopFunction matches a prefix of the function.
callFilter_prefix(f, s) ==
    CASE f.kind = "isTestStack" -> isTestStack(s)
      [] f.kind = "isSyscallStack" -> isSyscallStack(s)
      [] f.kind = "isStdLibStack" -> isStdLibStack(s)
      [] f.kind = "isTraceStack" -> isTraceStack(s)
      [] f.kind = "IgnoreTopFunction" -> HasPrefix(s.firstFunction, f.f)
      [] f.kind = "IgnoreCurrent" -> s.id \in f.excludeIDSet

\* The call f(s) of one element f of opts.filters.
callFilter(f, s) ==
    CASE f.kind = "isTestStack" -> isTestStack(s)
      [] f.kind = "isSyscallStack" -> isSyscallStack(s)
      [] f.kind = "isStdLibStack" -> isStdLibStack(s)
      [] f.kind = "isTraceStack" -> isTraceStack(s)
      [] f.kind = "IgnoreTopFunction" -> s.firstFunction = f.f
      [] f.kind = "IgnoreCurrent" -> s.id \in f.excludeIDSet

\* o.filter that consults the first filter only.
filterFrom_firstOnly(filters, s) ==
    IF filters = <<>> THEN FALSE ELSE callFilter(Head(filters), s)

\* o.filter that returns what the last filter it calls says.
RECURSIVE filterFrom_lastWins(_, _)
filterFrom_lastWins(filters, s) ==
    IF filters = <<>> THEN FALSE
    ELSE IF Len(filters) = 1 THEN callFilter(Head(filters), s)
    ELSE filterFrom_lastWins(Tail(filters), s)

RECURSIVE filterFrom(_, _)
filterFrom(filters, s) ==
    IF filters = <<>> THEN FALSE
    ELSE IF callFilter(Head(filters), s) THEN TRUE
    ELSE filterFrom(Tail(filters), s)

\* o.filter(s)
filter(opts, s) == filterFrom(opts.filters, s)

\* The receiver *o after o.filter(s): the loop ranges over o.filters and
\* assigns no field.
filterReceiver(opts, s) == opts

\* The receiver after o.filter has been called on each record of ss.
RECURSIVE filterAllReceiver(_, _)
filterAllReceiver(opts, ss) ==
    IF ss = <<>> THEN opts
    ELSE filterAllReceiver(filterReceiver(opts, Head(ss)), Tail(ss))

-----------------------------------------------------------------------------
(* options.go: opts.retry *)

\* d after "d := Microsecond << i; if d > o.maxSleep { d = o.maxSleep }".
retryDelay(opts, i) ==
    LET d == Shl(ToWord(Microsecond), i)
    IN  IF Gt(d, ToWord(opts.maxSleep)) THEN ToWord(opts.maxSleep) ELSE d

\* o.retry(i) with the bound test off by one.
retry_offByOne(opts, i) ==
    IF i > opts.maxRetries
    THEN [continue |-> FALSE, slept |-> <<>>]
    ELSE [continue |-> TRUE, slept |-> <<retryDelay(opts, i)>>]

\* o.retry(i) bounded by the default instead of the configured bound.
retry_defaultBound(opts, i) ==
    IF i >= _defaultRetryAttempts
    THEN [continue |-> FALSE, slept |-> <<>>]
    ELSE [continue |-> TRUE, slept |-> <<retryDelay(opts, i)>>]

\* The receiver after o.retry(i) when each call uses up one retry.
retryReceiver_countsDown(opts, i) ==
    [opts EXCEPT !.maxRetries = opts.maxRetries - 1]

\* The receiver *o after o.retry(i): retry reads o.maxRetries and
\* o.maxSleep and assigns no field.
retryReceiver(opts, i) == opts

\* o.retry(i): the value returned and the durations slept.
retry(opts, i) ==
    IF i >= opts.maxRetries
    THEN [continue |-> FALSE, slept |-> <<>>]
    ELSE [continue |-> TRUE, slept |-> <<retryDelay(opts, i)>>]

-----------------------------------------------------------------------------
(* The retry driver: calls o.retry(0), o.retry(1), ... in order *)

InitRetry ==
    /\ \E n \in 0..MaxRetriesBound, d \in SleepValues :
          o = buildOpts(<<MaxRetryAttempts(n), MaxSleepInterval(d)>>)
    /\ calls = 0
    /\ continues = <<>>
    /\ sleeps = <<>>
    /\ pc = "driver"
    /\ units = <<>>
    /\ nextId = 0
    /\ optionList = <<>>
    /\ cur = 0
    /\ stacks = <<>>
    /\ attempt = 0
    /\ snapshots = 0
    /\ last = {}
    /\ report = <<>>
    /\ prev = "none"
    /\ single = <<>>
    /\ captured = <<>>
    /\ asked = <<>>
    /\ lineIn = ""
    /\ parsed = <<>>
    /\ bufSize = 0
    /\ dumpLen = 0
    /\ returned = <<>>
    /\ subject = <<>>
    /\ verdict = <<>>
    /\ input = <<>>
    /\ readErr = FALSE
    /\ parser = <<>>
    /\ result = <<>>

RetryCall ==
    /\ calls < MaxRetriesBound + ExtraCalls
    /\ \E r \in {retry(o, calls)} :
          /\ continues' = Append(continues, r.continue)
          /\ sleeps' = sleeps \o r.slept
    /\ calls' = calls + 1
    /\ UNCHANGED <<o, detectVars, filterVars, parseVars, lineVars, bufferVars>>

NextRetry == RetryCall

SpecRetry == InitRetry /\ [][NextRetry]_vars

Min(a, b) == IF a < b THEN a ELSE b

\* min(1 microsecond << i, maxSleep) over the integers, in nanoseconds.
\* Every ceiling of the model is below 1000 * 2^21, so from attempt 21 on
\* the minimum is the ceiling.
ExpectedDelay(i, maxSleep) ==
    IF i > 20 THEN maxSleep ELSE Min(Microsecond * Pow2(i), maxSleep)

\* C3: the k-th sleep of the driver (attempt k-1) lasts exactly
\* min(1 microsecond << (k-1), maxSleep): 1, 2, 4, ... microseconds, then
\* the ceiling for all remaining attempts.
C3_ExactBackoff ==
    \A k \in 1..Len(sleeps) :
        sleeps[k] = ToWord(ExpectedDelay(k - 1, o.maxSleep))

\* C24: every duration the retry step sleeps is strictly positive and at
\* most maxSleep, and no sleep is shorter than the one before it, also for
\* the attempts at which 1 microsecond << i overflows the 64-bit integer.
C24_SleepWithinBounds ==
    /\ \A k \in 1..Len(sleeps) :
          /\ ~IsNeg(sleeps[k])
          /\ sleeps[k] # {}
          /\ ~Gt(sleeps[k], ToWord(o.maxSleep))
    /\ \A k \in 1..(Len(sleeps) - 1) : ~Gt(sleeps[k], sleeps[k + 1])

-----------------------------------------------------------------------------
(* The detection run: Find *)

\* filterStacks(stacks, skipID, opts): the records that are neither the
\* running goroutine's nor excluded by a filter, in the order captured.
RECURSIVE filterStacks(_, _, _)
filterStacks(all, skipID, opts) ==
    IF all = <<>> THEN <<>>
    ELSE IF Head(all).id = skipID \/ filter(opts, Head(all))
    THEN filterStacks(Tail(all), skipID, opts)
    ELSE <<Head(all)>> \o filterStacks(Tail(all), skipID, opts)

\* Insert record s into the id-sorted sequence ss.
RECURSIVE InsertByID(_, _)
InsertByID(s, ss) ==
    IF ss = <<>> THEN <<s>>
    ELSE IF s.id < Head(ss).id THEN <<s>> \o ss
    ELSE <<Head(ss)>> \o InsertByID(s, Tail(ss))

\* The report: the candidate records sorted ascending by id.
RECURSIVE SortByID(_)
SortByID(ss) ==
    IF ss = <<>> THEN <<>> ELSE InsertByID(Head(ss), SortByID(Tail(ss)))

\* Retry bounds and sleep ceilings the runs are configured with: the
\* negative bound and the zero ceiling are the invalid ones.
DetectRetries == {-1, 0, MaxDetectRetries}
DetectSleeps == {0, 3000}

\* The program's goroutines move while the caller configures detection and
\* while Find sleeps between two snapshots.  What they do between a capture
\* and the decision taken on it is seen by no later step of that decision,
\* and is the same as doing it at the start of the sleep that follows.
Running == pc \in {"config", "waiting"}

\* History: the record goroutine id has, taken from the program itself.
TrueRecord(id) ==
    [id |-> id, state |-> ShapeOf(units[id]).state,
     firstFunction |-> ShapeOf(units[id]).top]

\* History: the goroutines other than the detecting one that no configured
\* filter excludes.
TrueCandidates(opts) ==
    {id \in Alive(units) \ {Self} :
        ~\E k \in 1..Len(opts.filters) :
            LET f == opts.filters[k]
            IN  CASE f.kind = "isTestStack" ->
                       /\ ShapeOf(units[id]).top = "testing.(*T).Run"
                       /\ units[id] = "wait"
                  [] f.kind = "IgnoreTopFunction" -> ShapeOf(units[id]).top = f.f
                  [] f.kind = "IgnoreCurrent" -> id \in f.born
                  [] OTHER -> FALSE}

InitDetect ==
    /\ units \in {us \in [UnitIds -> Shapes \cup {"none", "self"}] :
                     /\ us[Self] = "self"
                     /\ us[1] # "self"
                     /\ \A id \in UnitIds : id > Self => us[id] = "none"}
    /\ nextId = Self + 1
    /\ \E n \in DetectRetries, d \in DetectSleeps :
          optionList = <<MaxRetryAttempts(n), MaxSleepInterval(d)>>
    /\ o = buildOpts(<<>>)
    /\ pc = "config"
    /\ cur = 0
    /\ stacks = <<>>
    /\ attempt = 0
    /\ snapshots = 0
    /\ last = {}
    /\ report = <<>>
    /\ prev = "none"
    /\ single = <<>>
    /\ captured = <<>>
    /\ asked = <<>>
    /\ lineIn = ""
    /\ parsed = <<>>
    /\ bufSize = 0
    /\ dumpLen = 0
    /\ returned = <<>>
    /\ calls = 0
    /\ continues = <<>>
    /\ sleeps = <<>>
    /\ subject = <<>>
    /\ verdict = <<>>
    /\ input = <<>>
    /\ readErr = FALSE
    /\ parser = <<>>
    /\ result = <<>>

\* The program starts a goroutine; ids are never reused.
Spawn ==
    /\ Running
    /\ nextId \in UnitIds
    /\ \E shape \in Shapes : units' = [units EXCEPT ![nextId] = shape]
    /\ nextId' = nextId + 1
    /\ UNCHANGED <<o, otherVars, sleeps, pc, optionList, cur, stacks,
                   attempt, snapshots, last, report>>

\* A goroutine of the program returns.
Exit ==
    /\ Running
    /\ \E id \in Alive(units) \ {Self} : units' = [units EXCEPT ![id] = "none"]
    /\ UNCHANGED <<o, otherVars, sleeps, pc, nextId, optionList, cur,
                   stacks, attempt, snapshots, last, report>>

\* A goroutine of the program moves on: its state and stack change.
Change ==
    /\ Running
    /\ \E id \in Alive(units) \ {Self}, shape \in Shapes :
          /\ units[id] # shape
          /\ units' = [units EXCEPT ![id] = shape]
    /\ UNCHANGED <<o, otherVars, sleeps, pc, nextId, optionList, cur,
                   stacks, attempt, snapshots, last, report>>

\* Whether the caller has created a filter option of this kind.
Created(kind) ==
    \E k \in 1..Len(optionList) :
        optionList[k].op = "addFilter" /\ optionList[k].f.kind = kind

\* The caller creates IgnoreTopFunction("main.worker").
AddIgnoreTopFunction ==
    /\ pc = "config"
    /\ ~Created("IgnoreTopFunction")
    /\ optionList' = Append(optionList, IgnoreTopFunction("main.worker"))
    /\ UNCHANGED <<o, otherVars, sleeps, pc, units, nextId, cur,
                   stacks, attempt, snapshots, last, report>>

\* The caller creates IgnoreCurrent(); born and bornNext record, for the
\* history, the goroutines alive at this moment and the next id to be given.
AddIgnoreCurrent ==
    /\ pc = "config"
    /\ ~Created("IgnoreCurrent")
    /\ \E order \in Orders(units) : \E all \in {All(units, order)} :
          /\ ~all.panicked
          /\ LET opt == IgnoreCurrent(all.stacks)
             IN  optionList' =
                    Append(optionList,
                           [op |-> opt.op,
                            f |-> [kind |-> opt.f.kind,
                                   excludeIDSet |-> opt.f.excludeIDSet,
                                   born |-> Alive(units),
                                   bornNext |-> nextId]])
    /\ UNCHANGED <<o, otherVars, sleeps, pc, units, nextId, cur,
                   stacks, attempt, snapshots, last, report>>

\* Find begins: build the configuration, validate it, and capture the
\* caller's own id.
FindStart ==
    /\ pc = "config"
    /\ o' = buildOpts(optionList)
    /\ IF validate(buildOpts(optionList)) # nil
       THEN /\ pc' = "rejected"
            /\ cur' = cur
       ELSE /\ pc' = "collecting"
            /\ cur' = Current(units).id
    /\ UNCHANGED <<otherVars, sleeps, units, nextId, optionList,
                   stacks, attempt, snapshots, last, report>>

\* collecting and filtering: stacks = filterStacks(stack.All(), cur, opts)
Snapshot ==
    /\ pc = "collecting"
    /\ \E order \in Orders(units) : \E all \in {All(units, order)} :
          IF all.panicked
          THEN /\ pc' = "panic"
               /\ UNCHANGED <<o, stacks, snapshots, last>>
          ELSE /\ stacks' = filterStacks(all.stacks, cur, o)
               /\ o' = filterAllReceiver(o, all.stacks)
               /\ snapshots' = snapshots + 1
               /\ last' = TrueCandidates(o)
               /\ pc' = "deciding"
    /\ UNCHANGED <<otherVars, sleeps, units, nextId, optionList,
                   cur, attempt, report>>

\* deciding: no candidate ends the run with success; otherwise o.retry(i)
\* either sleeps, or stops the run with the candidates as the report.  The
\* candidates of a snapshot the run sleeps on are read by no later step (the
\* next snapshot assigns stacks before anything reads it), so the step that
\* sleeps lets go of them.
Decide ==
    /\ pc = "deciding"
    /\ IF Len(stacks) = 0
       THEN /\ pc' = "done-success"
            /\ UNCHANGED <<o, sleeps, report, stacks>>
       ELSE /\ o' = retryReceiver(o, attempt)
            /\ \E r \in {retry(o, attempt)} :
                 IF r.continue
                 THEN /\ sleeps' = sleeps \o r.slept
                      /\ pc' = "waiting"
                      /\ stacks' = <<>>
                      /\ UNCHANGED report
                 ELSE /\ pc' = "done-leak"
                      /\ report' = SortByID(stacks)
                      /\ UNCHANGED <<sleeps, stacks>>
    /\ UNCHANGED <<otherVars, units, nextId, optionList, cur,
                   attempt, snapshots, last>>

\* waiting: the sleep of o.retry is over and the loop goes round.
Wake ==
    /\ pc = "waiting"
    /\ attempt' = attempt + 1
    /\ pc' = "collecting"
    /\ UNCHANGED <<o, otherVars, sleeps, units, nextId, optionList,
                   cur, stacks, snapshots, last, report>>

FindStep == FindStart \/ Snapshot \/ Decide \/ Wake

NextDetect ==
    \/ Spawn \/ Exit \/ Change
    \/ AddIgnoreTopFunction \/ AddIgnoreCurrent
    \/ FindStart \/ Snapshot \/ Decide \/ Wake

SpecDetect == InitDetect /\ [][NextDetect]_vars

\* Find runs on its own goroutine and is never suspended for ever: each of
\* its steps is weakly fair.  FindStart, Snapshot and Decide are enabled
\* exactly when pc is "config", "collecting" and "deciding" (Orders is never
\* empty and o.retry always answers), and each of them moves pc away from
\* that value.  For such a step A at value v, WF_vars(A), which is
\* []<>~ENABLED <<A>>_vars \/ []<><<A>>_vars, is []<>(pc # v) \/ []<><<A>>_vars,
\* and its second disjunct implies the first: it is written []<>(pc # v).
FairDetect ==
    /\ SpecDetect
    /\ WF_vars(Wake)
    /\ []<>(pc # "config")
    /\ []<>(pc # "collecting")
    /\ []<>(pc # "deciding")

\* The caller runs detection a second time, right after a run has ended,
\* on the configuration of that run: the program's goroutines have not
\* moved since the last snapshot, and the new run starts with attempt 0.
Again ==
    /\ pc \in {"done-success", "done-leak"}
    /\ prev = "none"
    /\ prev' = pc
    /\ pc' = "collecting"
    /\ cur' = Current(units).id
    /\ stacks' = <<>>
    /\ attempt' = 0
    /\ snapshots' = 0
    /\ last' = {}
    /\ report' = <<>>
    /\ sleeps' = <<>>
    /\ UNCHANGED <<o, driverVars, filterVars, parseVars, lineVars, bufferVars,
                   units, nextId, optionList>>

NextTwice == NextDetect \/ Again

SpecTwice == InitDetect /\ [][NextTwice]_vars

-----------------------------------------------------------------------------
(* Properties of the detection run *)

IDs(ss) == {ss[k].id : k \in 1..Len(ss)}

\* C1: the run ends in done-success exactly on a snapshot without
\* candidates and goes on only after a snapshot with candidates; it ends in
\* done-leak only when the latest snapshot has candidates and the retry
\* bound is used up, and the report names the candidates of that latest
\* snapshot only, never a unit that was a candidate just in an earlier one.
C1_Verdict ==
    /\ pc = "done-success" => last = {}
    /\ pc = "waiting" \/ (pc = "collecting" /\ snapshots > 0) => last # {}
    /\ pc = "deciding" => (IDs(stacks) = last)
    /\ pc = "done-leak" =>
          /\ last # {}
          /\ attempt >= o.maxRetries
          /\ snapshots = o.maxRetries + 1
          /\ IDs(report) = last

C1_Witness ==
    /\ pc = "done-success"
    /\ snapshots > 1
    /\ sleeps # <<>>
    /\ \E id \in Alive(units) \ {Self} : units[id] = "wait"

Final == {"done-success", "done-leak"}

\* C2: a run makes at most maxRetries waits and maxRetries + 1 snapshots,
\* and once started it reaches done-success or done-leak whatever the
\* program's goroutines do in between.
C2_Terminates ==
    /\ [](pc \notin {"config", "rejected"} =>
            /\ Len(sleeps) <= o.maxRetries
            /\ snapshots <= o.maxRetries + 1)
    /\ ((pc = "collecting") ~> (pc \in Final))

C2_Witness ==
    /\ pc = "done-leak"
    /\ o.maxRetries = MaxDetectRetries
    /\ Len(sleeps) = MaxDetectRetries
    /\ nextId > Self + 1

\* C20: a run leaves the configuration as buildOpts made it (filters,
\* maxRetries, maxSleep); a run started right after a successful one
\* succeeds on its first snapshot, without a wait; and a second run that
\* ends in done-leak has made all the configured retries.
C20_ConfigurationUnchanged ==
    /\ pc # "config" => o = buildOpts(optionList)
    /\ prev = "done-success" =>
          /\ pc \in {"collecting", "deciding", "done-success"}
          /\ stacks = <<>>
          /\ sleeps = <<>>
    /\ (prev # "none" /\ pc = "done-leak") =>
          /\ Len(sleeps) = optionList[1].num
          /\ snapshots = optionList[1].num + 1

C20_Witness ==
    /\ prev = "done-success"
    /\ pc = "done-success"
    /\ o.maxRetries = MaxDetectRetries
    /\ Len(o.filters) > Len(DefaultFilters)
    /\ \E id \in Alive(units) \ {Self} : units[id] = "leak"

BaselineFilters ==
    {o.filters[k] : k \in {j \in 1..Len(o.filters) :
                              o.filters[j].kind = "IgnoreCurrent"}}

\* C6: the filter made by IgnoreCurrent excludes exactly the ids alive when
\* the option was created, whatever the goroutine does now; a goroutine
\* spawned later is never excluded by it, and a leak report of a run with a
\* baseline names goroutines spawned after the baseline only.
C6_Baseline ==
    pc \notin {"config", "rejected"} =>
        \A f \in BaselineFilters :
            /\ \A id \in UnitIds, shape \in Shapes \cup {"self"} :
                  callFilter(f, [id |-> id, state |-> ShapeOf(shape).state,
                                 firstFunction |-> ShapeOf(shape).top])
                  <=> id \in f.born
            /\ \A id \in UnitIds : id >= f.bornNext => id \notin f.excludeIDSet
            /\ pc = "done-leak" => \A id \in IDs(report) : id >= f.bornNext

C6_Witness ==
    /\ pc = "done-leak"
    /\ \E f \in BaselineFilters : f.born = {1, Self}
    /\ units[1] \in {"busy", "leak"}
    /\ IDs(report) = {3}
    /\ Len(report) = 1

C8_Report ==
    /\ pc # "done-leak" => report = <<>>
    /\ pc = "done-leak" =>
          /\ report # <<>>
          /\ IDs(report) = last
          /\ \A k \in 1..Len(report) :
                /\ report[k].state = ShapeOf(units[report[k].id]).state
                /\ report[k].firstFunction = ShapeOf(units[report[k].id]).top
          /\ \A k \in 1..(Len(report) - 1) : report[k].id < report[k + 1].id

C8_Witness ==
    /\ pc = "done-leak"
    /\ Len(report) = 2
    /\ stacks[1].id > stacks[2].id
    /\ report[1].id < report[2].id

\* C9: stack.All() returns a record for every live goroutine, the caller's
\* included, but the caller's record is never among the candidates nor in
\* the report.
C9_SelfSkipped ==
    /\ pc = "collecting" =>
          /\ cur = Self
          /\ \A order \in Orders(units) :
                IDs(All(units, order).stacks) = Alive(units)
    /\ Self \notin IDs(stacks)
    /\ Self \notin IDs(report)

C9_Witness ==
    /\ pc = "done-leak"
    /\ ~filter(o, Current(units))
    /\ Self \notin IDs(report)
    /\ \E order \in Orders(units) : Self \in IDs(All(units, order).stacks)

-----------------------------------------------------------------------------
(* The filter driver: calls o.filter(s) for one record and configuration *)

\* The records handed to the filter chain.
SubjectStates == {"chan receive", "chan receive, 2 minutes", "running", "syscall"}
SubjectFunctions ==
    {"testing.(*T).Run", "testing.RunTests", "runtime.goexit",
     "os/signal.loop", "main.worker", "main.worker.func1"}
SubjectStacks ==
    {"main.worker(0x2)\n\t/app/main.go:10 +0x1d\n",
     "runtime.ensureSigM.func1()\n\t/go/src/runtime/signal_unix.go:1 +0x1\n",
     "runtime.ReadTrace()\n\t/go/src/runtime/trace.go:1 +0x1\n"}

Subjects ==
    [id : {1, 3}, state : SubjectStates,
     firstFunction : SubjectFunctions, fullStack : SubjectStacks]

\* Number of filter options added to a configuration.
MaxUserFilters == 1

\* The filter options a configuration is built from.
FilterOptions ==
    {IgnoreTopFunction("main.worker"),
     IgnoreCurrent(<<[id |-> 1], [id |-> 2]>>)}

\* The sequences of at most n distinct filter options.
RECURSIVE OptionSeqs(_)
OptionSeqs(n) ==
    IF n = 0 THEN {<<>>}
    ELSE OptionSeqs(n - 1)
         \cup {Append(os, opt) : os \in {x \in OptionSeqs(n - 1) : Len(x) = n - 1},
                                 opt \in FilterOptions}

\* The orderings of the filter sequence fs.
Orderings(fs) ==
    {[k \in 1..Len(fs) |-> fs[pi[k]]] :
        pi \in {f \in [1..Len(fs) -> 1..Len(fs)] :
                    \A a, b \in 1..Len(fs) : a # b => f[a] # f[b]}}

InitFilter ==
    /\ subject \in Subjects
    /\ \E os \in OptionSeqs(MaxUserFilters) :
          \E fs \in Orderings(buildOpts(os).filters) :
              o = [buildOpts(os) EXCEPT !.filters = fs]
    /\ verdict = <<>>
    /\ pc = "driver"
    /\ units = <<>>
    /\ nextId = 0
    /\ optionList = <<>>
    /\ cur = 0
    /\ stacks = <<>>
    /\ attempt = 0
    /\ snapshots = 0
    /\ last = {}
    /\ report = <<>>
    /\ prev = "none"
    /\ single = <<>>
    /\ captured = <<>>
    /\ asked = <<>>
    /\ lineIn = ""
    /\ parsed = <<>>
    /\ bufSize = 0
    /\ dumpLen = 0
    /\ returned = <<>>
    /\ calls = 0
    /\ continues = <<>>
    /\ sleeps = <<>>
    /\ input = <<>>
    /\ readErr = FALSE
    /\ parser = <<>>
    /\ result = <<>>

FilterCall ==
    /\ verdict = <<>>
    /\ verdict' = <<filter(o, subject)>>
    /\ UNCHANGED <<o, sleeps, driverVars, detectVars, subject, single, parseVars,
                   lineVars, bufferVars>>

NextFilter == FilterCall

SpecFilter == InitFilter /\ [][NextFilter]_vars

\* C5: o.filter excludes a record exactly when at least one configured
\* filter returns true for it, in whatever order the filters are configured
\* (every ordering of every configuration is an initial state).
C5_FilterIsOr ==
    verdict # <<>> =>
        verdict[1] = (\E k \in 1..Len(o.filters) :
                         callFilter(o.filters[k], subject))

C5_Witness ==
    /\ verdict = <<TRUE>>
    /\ ~callFilter(o.filters[1], subject)
    /\ callFilter(o.filters[Len(o.filters)], subject)
    /\ \A k \in 1..(Len(o.filters) - 1) : ~callFilter(o.filters[k], subject)

-----------------------------------------------------------------------------
(* The parser driver: Parse on a text made of a few pieces *)

\* Number of pieces a text is made of.
MaxPieces == 3

Pieces ==
    { <<"goroutine 7 [running]:", "main.(*T).m(0x1)", "\t/app/main.go:10 +0x1d">>,
      <<"goroutine 3 [chan receive, 2 minutes]:", "main.f(...)",
        "\t/app/main.go:20 +0x2", "created by main.g in goroutine 7",
        "\t/app/main.go:5 +0x2a">>,
      <<"goroutine 5 [select]:", "created by main.g in goroutine 7",
        "\t/app/main.go:5 +0x2a">>,
      <<"goroutine no-number [running]:", "main.f(...)", "\t/app/main.go:20 +0x2">>,
      <<"goroutine [running]:">>,
      <<"goroutine 9 [runnable]:">>,
      <<"goroutine 8 [running]:", "main.f", "\t/app/main.go:20 +0x2">>,
      <<"">>,
      <<"main.f(...)", "\t/app/main.go:20 +0x2">>,
      <<"goroutine 4 [chan send]:", "main.worker.func1(0x2)",
        "\t/app/w.go:7 +0x1", "main.worker(0x2)", "\t/app/w.go:3 +0x5",
        "created by main.run in goroutine 1", "\t/app/main.go:9 +0x2a">> }

RECURSIVE Texts(_)
Texts(n) ==
    IF n = 0 THEN {<<>>}
    ELSE Texts(n - 1) \cup {t \o piece : t \in Texts(n - 1), piece \in Pieces}

InitParse ==
    /\ input \in Texts(MaxPieces)
    /\ readErr \in BOOLEAN
    /\ parser = newStackParser(input)
    /\ result = <<>>
    /\ o = buildOpts(<<>>)
    /\ subject = <<>>
    /\ verdict = <<>>
    /\ pc = "driver"
    /\ units = <<>>
    /\ nextId = 0
    /\ optionList = <<>>
    /\ cur = 0
    /\ stacks = <<>>
    /\ attempt = 0
    /\ snapshots = 0
    /\ last = {}
    /\ report = <<>>
    /\ prev = "none"
    /\ single = <<>>
    /\ captured = <<>>
    /\ asked = <<>>
    /\ lineIn = ""
    /\ parsed = <<>>
    /\ bufSize = 0
    /\ dumpLen = 0
    /\ returned = <<>>
    /\ calls = 0
    /\ continues = <<>>
    /\ sleeps = <<>>

\* One iteration of the loop of Parse.
ParseStep ==
    /\ result = <<>>
    /\ CanScan(parser)
    /\ parser' = ParseIter(parser)
    /\ UNCHANGED <<o, sleeps, driverVars, detectVars, filterVars, input,
                   readErr, result, captured, asked, lineVars,
                   bufferVars>>

\* Scan returned false: Parse appends the scanner's error and returns.
ParseEnd ==
    /\ result = <<>>
    /\ ~CanScan(parser)
    /\ result' = <<ParseReturn(parser, IF readErr THEN "read error" ELSE nil)>>
    /\ UNCHANGED <<o, sleeps, driverVars, detectVars, filterVars, input,
                   readErr, parser, captured, asked, lineVars,
                   bufferVars>>

\* getStacks after Parse has returned: panic or return the records.
GetStacksReturn ==
    /\ result # <<>>
    /\ captured = <<>>
    /\ captured' = <<stacksOrPanic(result[1])>>
    /\ UNCHANGED <<o, sleeps, driverVars, detectVars, filterVars, input,
                   readErr, parser, result, asked, lineVars,
                   bufferVars>>

\* The functions asked for.
AskedFunctions == {"main.f", "main.g", "main.worker", "main.run"}

\* The caller asks a record getStacks returned whether it has a function.
HasFunctionCall ==
    /\ captured # <<>>
    /\ ~captured[1].panicked
    /\ asked = <<>>
    /\ \E k \in 1..Len(captured[1].stacks), f \in AskedFunctions :
          asked' = <<[k |-> k, f |-> f,
                      v |-> HasFunction(captured[1].stacks[k], f)]>>
    /\ UNCHANGED <<o, sleeps, driverVars, detectVars, filterVars, input,
                   readErr, parser, result, captured, lineVars, bufferVars>>

NextParse == ParseStep \/ ParseEnd \/ GetStacksReturn \/ HasFunctionCall

SpecParse == InitParse /\ [][NextParse]_vars

\* The well-formed headers of the pieces, with the id and state they name.
HeaderTable ==
    { [line |-> "goroutine 7 [running]:", id |-> 7, state |-> "running"],
      [line |-> "goroutine 3 [chan receive, 2 minutes]:", id |-> 3,
       state |-> "chan receive, 2 minutes"],
      [line |-> "goroutine 5 [select]:", id |-> 5, state |-> "select"],
      [line |-> "goroutine 9 [runnable]:", id |-> 9, state |-> "runnable"],
      [line |-> "goroutine 8 [running]:", id |-> 8, state |-> "running"],
      [line |-> "goroutine 4 [chan send]:", id |-> 4, state |-> "chan send"] }

IsHeader(line) == \E h \in HeaderTable : h.line = line

HeaderOf(line) == CHOOSE h \in HeaderTable : h.line = line

\* CallLine := FunctionName "(" Args ")" | "created by" SPACE FunctionName ...
IsCallLine(line) ==
    \/ Index(line, "(") > 0 /\ HasSuffix(line, ")")
    \/ HasPrefix(line, "created by ") /\ Len(line) > Len("created by ")

IsLocationLine(line) == HasPrefix(line, "\t")

\* Dump := Record*, Record := Header Frame+, Frame := CallLine LocationLine
RECURSIVE IsDump(_)
RECURSIVE IsFrames(_, _)
IsDump(lines) ==
    lines = <<>> \/ (IsHeader(lines[1]) /\ IsFrames(Tail(lines), 0))

IsFrames(lines, n) ==
    IF lines = <<>> THEN n >= 1
    ELSE IF IsHeader(lines[1]) THEN n >= 1 /\ IsDump(lines)
    ELSE /\ Len(lines) >= 2
         /\ IsCallLine(lines[1])
         /\ IsLocationLine(lines[2])
         /\ IsFrames(SubSeq(lines, 3, Len(lines)), n + 1)

\* The headers of a dump, in the order they appear.
RECURSIVE HeadersOf(_)
HeadersOf(lines) ==
    IF lines = <<>> THEN <<>>
    ELSE IF IsHeader(lines[1]) THEN <<HeaderOf(lines[1])>> \o HeadersOf(Tail(lines))
    ELSE HeadersOf(Tail(lines))

\* C10: Parse of a dump of N well-formed records, read without error,
\* returns no error and exactly N records, the k-th with the id and state of
\* the k-th header of the input.
C10_OneRecordPerHeader ==
    (result # <<>> /\ ~readErr /\ IsDump(input)) =>
        /\ result[1].err = <<>>
        /\ Len(result[1].stacks) = Len(HeadersOf(input))
        /\ \A k \in 1..Len(result[1].stacks) :
              /\ result[1].stacks[k].id = HeadersOf(input)[k].id
              /\ result[1].stacks[k].state = HeadersOf(input)[k].state

-----------------------------------------------------------------------------
(* Properties of Parse on texts with malformed records *)

\* The number of lines at the start of lines that do not begin a record.
RECURSIVE BodyLen(_)
BodyLen(lines) ==
    IF lines = <<>> \/ HasPrefix(lines[1], "goroutine ") THEN 0
    ELSE 1 + BodyLen(Tail(lines))

\* The records of a text: each begins at a line that starts with
\* "goroutine " and ends before the next such line.
RECURSIVE RecordsOf(_)
RecordsOf(lines) ==
    IF lines = <<>> THEN <<>>
    ELSE IF HasPrefix(lines[1], "goroutine ")
    THEN <<SubSeq(lines, 1, 1 + BodyLen(Tail(lines)))>>
         \o RecordsOf(SubSeq(lines, 2 + BodyLen(Tail(lines)), Len(lines)))
    ELSE RecordsOf(Tail(lines))

\* A malformed record: a bad header, or no function signature after it.
Malformed(rec) ==
    \/ ~IsHeader(rec[1])
    \/ Len(rec) < 2
    \/ ~Contains(rec[2], "(")

WellFormed(rec) == ~Malformed(rec)

\* C11: Parse returns the well-formed records of the text in input order,
\* whatever malformed records stand before, between or after them, and an
\* aggregate error with one error for each malformed record and one for a
\* scanner error; the error is nil exactly when there is none of either.
C11_FailuresAreLocal ==
    result # <<>> =>
        /\ Len(result[1].stacks) = Len(SelectSeq(RecordsOf(input), WellFormed))
        /\ \A k \in 1..Len(result[1].stacks) :
              /\ result[1].stacks[k].id =
                    HeaderOf(SelectSeq(RecordsOf(input), WellFormed)[k][1]).id
              /\ result[1].stacks[k].state =
                    HeaderOf(SelectSeq(RecordsOf(input), WellFormed)[k][1]).state
        /\ Len(result[1].err) =
              Len(SelectSeq(RecordsOf(input), Malformed))
              + (IF readErr THEN 1 ELSE 0)
        /\ (result[1].err = <<>>) <=>
              (SelectSeq(RecordsOf(input), Malformed) = <<>> /\ ~readErr)

\* The positions of the headers of the text that no body line follows.
BareHeaders(lines) ==
    {j \in 1..Len(lines) :
        /\ HasPrefix(lines[j], "goroutine ")
        /\ (j = Len(lines) \/ HasPrefix(lines[j + 1], "goroutine "))}

\* C13: every record Parse returns has a non-empty firstFunction, which is
\* the text before the last "(" of the line that follows the record's
\* header; and a header that no body line follows gives an error, not a
\* record.
C13_FirstFunctionNonEmpty ==
    result # <<>> =>
        /\ \A k \in 1..Len(result[1].stacks) :
              /\ result[1].stacks[k].firstFunction # ""
              /\ \E j \in 1..(Len(input) - 1) :
                    /\ IsHeader(input[j])
                    /\ HeaderOf(input[j]).id = result[1].stacks[k].id
                    /\ HasPrefix(TrimSpace(input[j + 1]),
                                 result[1].stacks[k].firstFunction \o "(")
        /\ Len(result[1].err) >=
              Cardinality(BareHeaders(input)) + (IF readErr THEN 1 ELSE 0)

\* The text of a sequence of lines, each ended by a newline.
RECURSIVE TextOf(_)
TextOf(lines) ==
    IF lines = <<>> THEN ""
    ELSE lines[1] \o "\n" \o TextOf(Tail(lines))

\* The header and the full text of every record, written one after another.
RECURSIVE Rewrite(_)
Rewrite(ss) ==
    IF ss = <<>> THEN ""
    ELSE "goroutine " \o Itoa(ss[1].id) \o " [" \o ss[1].state \o "]:\n"
         \o ss[1].fullStack \o Rewrite(Tail(ss))

\* C15: for a well-formed dump, writing the header and the full text of
\* every record Parse returns, in order, gives back the input exactly.
C15_RoundTrip ==
    (result # <<>> /\ ~readErr /\ IsDump(input)) =>
        Rewrite(result[1].stacks) = TextOf(input)

\* C16: getStacks panics exactly when the aggregate error of Parse is not
\* nil, a panic hands no record to the caller, and a normal return hands
\* over every record Parse returned.
C16_PanicOnParseError ==
    captured # <<>> =>
        /\ captured[1].panicked <=> result[1].err # <<>>
        /\ captured[1].panicked => captured[1].stacks = <<>>
        /\ ~captured[1].panicked => captured[1].stacks = result[1].stacks

C16_Witness ==
    /\ captured # <<>>
    /\ captured[1].panicked
    /\ Len(result[1].stacks) = 2
    /\ Len(result[1].err) = 1

\* The call lines of the pieces that are frames of the record itself, with
\* the function each names.
FrameTable ==
    { [line |-> "main.(*T).m(0x1)", fn |-> "main.(*T).m"],
      [line |-> "main.f(...)", fn |-> "main.f"],
      [line |-> "main.worker.func1(0x2)", fn |-> "main.worker.func1"],
      [line |-> "main.worker(0x2)", fn |-> "main.worker"] }

\* The functions of the record's own call frames.
OwnFunctions(rec) ==
    {e.fn : e \in {x \in FrameTable : \E j \in 2..Len(rec) : rec[j] = x.line}}

\* C21: HasFunction(f) on a parsed record is true exactly when f is the
\* function of one of the record's own call frames, the top one or a
\* deeper one, and false for a function found only on its "created by"
\* line.
C21_HasFunction ==
    asked # <<>> =>
        asked[1].v = (asked[1].f \in OwnFunctions(RecordsOf(input)[asked[1].k]))

\* The places of the lines of a text that begin with "goroutine ".
GoroutineLines(lines) ==
    {j \in 1..Len(lines) : HasPrefix(lines[j], "goroutine ")}

\* C23: the records Parse returns and the per-record errors it aggregates
\* are together as many as the lines of the input that begin with
\* "goroutine ": each such line gives one record or one error, and no
\* other line gives either.
C23_OnePerHeaderLine ==
    result # <<>> =>
        Len(result[1].stacks) + Len(result[1].err)
            = Cardinality(GoroutineLines(input)) + (IF readErr THEN 1 ELSE 0)

C23_Witness ==
    /\ result # <<>>
    /\ ~readErr
    /\ 1 \notin GoroutineLines(input)
    /\ \E j \in GoroutineLines(input) : j + 1 \in GoroutineLines(input)
    /\ Len(result[1].stacks) = 1
    /\ Len(result[1].err) = 1

-----------------------------------------------------------------------------
(* The line driver: parseGoStackHeader or parseFirstFunc on one line *)

HeaderIDs == {"5", "12", "007", "+7", "-3", "no-number", "1x", ""}

HeaderStates ==
    {"[running]:", "[chan receive, 2 minutes]:", "[select]", "[]:",
     "running:", "[IO wait]:", ""}

HeaderLines ==
    {"goroutine " \o id \o " " \o st : id \in HeaderIDs, st \in HeaderStates}
    \cup {"goroutine " \o id : id \in HeaderIDs}
    \cup {"goroutine", "goroutine [running]:", "goroutine 5:"}

BodyLines ==
    {"example.com/foo/bar.baz()", "example.com/foo/bar.(*baz).qux()",
     "main.worker(0x2, 0x3)", "main.f(...)",
     "main.run.func1(0xc000, {0x1, 0x2})", "  main.g(0x1)  ",
     "created by example.com/foo/bar.baz",
     "created by example.com/foo/bar.baz in goroutine 123",
     "example.com/foo/bar.baz", "\t/app/main.go:10 +0x1d", "", "(x)"}

InitLine ==
    /\ lineIn \in HeaderLines \cup BodyLines
    /\ parsed = <<>>
    /\ o = buildOpts(<<>>)
    /\ calls = 0
    /\ continues = <<>>
    /\ sleeps = <<>>
    /\ pc = "driver"
    /\ units = <<>>
    /\ nextId = 0
    /\ optionList = <<>>
    /\ cur = 0
    /\ stacks = <<>>
    /\ attempt = 0
    /\ snapshots = 0
    /\ last = {}
    /\ report = <<>>
    /\ prev = "none"
    /\ subject = <<>>
    /\ verdict = <<>>
    /\ single = <<>>
    /\ input = <<>>
    /\ readErr = FALSE
    /\ parser = <<>>
    /\ result = <<>>
    /\ captured = <<>>
    /\ asked = <<>>
    /\ bufSize = 0
    /\ dumpLen = 0
    /\ returned = <<>>

HeaderCall ==
    /\ parsed = <<>>
    /\ parsed' = <<[fn |-> "parseGoStackHeader", r |-> parseGoStackHeader(lineIn)]>>
    /\ UNCHANGED <<o, sleeps, driverVars, detectVars, filterVars, parseVars,
                   lineIn, bufferVars>>

FuncCall ==
    /\ parsed = <<>>
    /\ parsed' = <<[fn |-> "parseFirstFunc", r |-> parseFirstFunc(lineIn)]>>
    /\ UNCHANGED <<o, sleeps, driverVars, detectVars, filterVars, parseVars,
                   lineIn, bufferVars>>

NextLine == HeaderCall \/ FuncCall

SpecLine == InitLine /\ [][NextLine]_vars

\* The tokens of a header: the line split at its first two spaces.
Tokens(l) == SplitN(l, " ", 3)

\* The integers among the id tokens, with their values.
IntegerTable ==
    { [tok |-> "5", val |-> 5], [tok |-> "12", val |-> 12],
      [tok |-> "007", val |-> 7], [tok |-> "+7", val |-> 7],
      [tok |-> "-3", val |-> 0 - 3] }

IsInteger(t) == \E e \in IntegerTable : e.tok = t

\* The third token with the trailing colon and the brackets stripped.
StripState(t) == TrimSuffix(TrimPrefix(TrimSuffix(t, ":"), "["), "]")

\* C12: a header with fewer than three tokens gives "unexpected format", one
\* whose second token is no integer gives "bad goroutine ID", and any other
\* gives the token's value as id and the stripped third token as state; a
\* body line without "(" gives "no function found".
C12_ErrorClasses ==
    parsed # <<>> =>
        /\ parsed[1].fn = "parseGoStackHeader" =>
              IF Len(Tokens(lineIn)) # 3
              THEN Contains(parsed[1].r.err, "unexpected format")
              ELSE IF ~IsInteger(Tokens(lineIn)[2])
              THEN Contains(parsed[1].r.err, "bad goroutine ID")
              ELSE /\ parsed[1].r.err = nil
                   /\ \E e \in IntegerTable :
                         e.tok = Tokens(lineIn)[2] /\ e.val = parsed[1].r.id
                   /\ parsed[1].r.state = StripState(Tokens(lineIn)[3])
        /\ (parsed[1].fn = "parseFirstFunc" /\ ~Contains(lineIn, "(")) =>
              Contains(parsed[1].r.err, "no function found")

C12_Witness ==
    /\ parsed # <<>>
    /\ parsed[1].fn = "parseGoStackHeader"
    /\ lineIn = "goroutine 12 [chan receive, 2 minutes]:"
    /\ parsed[1].r.err = nil
    /\ parsed[1].r.state = "chan receive, 2 minutes"

\* The call lines of TestParseFuncName and the names they carry.
FuncNameTable ==
    { [give |-> "example.com/foo/bar.baz()", want |-> "example.com/foo/bar.baz"],
      [give |-> "example.com/foo/bar.(*baz).qux()",
       want |-> "example.com/foo/bar.(*baz).qux"],
      [give |-> "main.run.func1(0xc000, {0x1, 0x2})", want |-> "main.run.func1"],
      [give |-> "created by example.com/foo/bar.baz",
       want |-> "example.com/foo/bar.baz"],
      [give |-> "created by example.com/foo/bar.baz in goroutine 123",
       want |-> "example.com/foo/bar.baz"] }

\* C14: the function name of a call line is the text before its last "(",
\* and that of a "created by X" or "created by X in goroutine N" line is X,
\* extracted without an error.
C14_FunctionName ==
    (parsed # <<>> /\ parsed[1].fn = "parseFirstFunc") =>
        \A row \in FuncNameTable :
            lineIn = row.give =>
                /\ parsed[1].r.err = nil
                /\ parsed[1].r.fn = row.want

-----------------------------------------------------------------------------
(* The buffer driver: the loop of getStackBuffer on dumps of changing size *)

\* The dumps are of up to MaxDumpUnits times the default buffer size.
MaxDumpUnits == 8

\* Dump lengths at, just below and just above the multiples of the default
\* buffer size.
DumpSizes ==
    {k * _defaultBufferSize + d : k \in 0..MaxDumpUnits, d \in {0 - 1, 0, 1}}
        \cap Nat

InitBuffer ==
    /\ bufSize = _defaultBufferSize
    /\ dumpLen \in DumpSizes
    /\ returned = <<>>
    /\ lineIn = ""
    /\ parsed = <<>>
    /\ o = buildOpts(<<>>)
    /\ calls = 0
    /\ continues = <<>>
    /\ sleeps = <<>>
    /\ pc = "driver"
    /\ units = <<>>
    /\ nextId = 0
    /\ optionList = <<>>
    /\ cur = 0
    /\ stacks = <<>>
    /\ attempt = 0
    /\ snapshots = 0
    /\ last = {}
    /\ report = <<>>
    /\ prev = "none"
    /\ subject = <<>>
    /\ verdict = <<>>
    /\ single = <<>>
    /\ input = <<>>
    /\ readErr = FALSE
    /\ parser = <<>>
    /\ result = <<>>
    /\ captured = <<>>
    /\ asked = <<>>

\* The loop goes on with the buffer t.i; the program has run meanwhile and
\* its dump has another length.
Grow(t) ==
    /\ ~t.done
    /\ bufSize' = t.i
    /\ dumpLen' \in DumpSizes
    /\ returned' = <<>>

\* getStackBuffer returns buf[:n].
Return(t) ==
    /\ t.done
    /\ returned' = <<t.n>>
    /\ UNCHANGED <<bufSize, dumpLen>>

\* One iteration of the loop: a buffer of bufSize bytes, runtime.Stack on
\* the dump of dumpLen bytes, and the test of what it wrote.
Capture ==
    /\ returned = <<>>
    /\ \E t \in {tryBuffer(bufSize, written(dumpLen, bufSize))} :
          Grow(t) \/ Return(t)
    /\ UNCHANGED <<o, sleeps, driverVars, detectVars, filterVars, parseVars,
                   lineVars>>

NextBuffer == Capture

SpecBuffer == InitBuffer /\ [][NextBuffer]_vars

\* The loop has no other step to take and no wait in it.
FairBuffer == SpecBuffer /\ WF_vars(Capture)

RECURSIVE IsDoubled(_)
IsDoubled(size) ==
    \/ size = 64 * 1024
    \/ size > 64 * 1024 /\ size % 2 = 0 /\ IsDoubled(size \div 2)

\* C17: the buffer is 64 KiB doubled some number of times; a capture that
\* fills the buffer doubles it and captures again, any other returns; what
\* is returned is the whole dump, shorter than the buffer; and the loop
\* returns in the end.
C17_NeverTruncated ==
    /\ [](/\ IsDoubled(bufSize)
          /\ returned # <<>> => (returned[1] = dumpLen /\ returned[1] < bufSize))
    /\ [][returned = <<>> =>
            IF dumpLen >= bufSize
            THEN returned' = <<>> /\ bufSize' = 2 * bufSize
            ELSE returned' # <<>> /\ bufSize' = bufSize]_vars
    /\ <>(returned # <<>>)

C17_Witness ==
    /\ returned # <<>>
    /\ bufSize = 4 * 64 * 1024
    /\ returned[1] > 2 * 64 * 1024

-----------------------------------------------------------------------------
(* The top-function driver: one filter, or o.filter, on one record *)

TopFunctions ==
    {"testing.RunTests", "testing.(*T).Run", "testing.(*T).Parallel",
     "testing.runFuzzing", "testing.runFuzzTests", "testing.tRunner",
     "testing.(*T).Run.func1", "runtime.goexit", "os/signal.signal_recv",
     "main.worker", "main.worker.func1", "main.work"}

TopStates ==
    {"chan receive", "chan receive, 2 minutes", "chan receive (nil chan)",
     "chan send", "running", "select", "syscall"}

TopSubjects ==
    [id : {3}, state : TopStates, firstFunction : TopFunctions,
     fullStack : SubjectStacks]

\* The options given to buildOpts: none, or one IgnoreTopFunction.
TopOptions ==
    {<<>>, <<IgnoreTopFunction("main.worker")>>,
     <<IgnoreTopFunction("testing.(*T).Run")>>}

InitTop ==
    /\ subject \in TopSubjects
    /\ \E os \in TopOptions : o = buildOpts(os)
    /\ verdict = <<>>
    /\ single = <<>>
    /\ pc = "driver"
    /\ units = <<>>
    /\ nextId = 0
    /\ optionList = <<>>
    /\ cur = 0
    /\ stacks = <<>>
    /\ attempt = 0
    /\ snapshots = 0
    /\ last = {}
    /\ report = <<>>
    /\ prev = "none"
    /\ captured = <<>>
    /\ asked = <<>>
    /\ lineIn = ""
    /\ parsed = <<>>
    /\ bufSize = 0
    /\ dumpLen = 0
    /\ returned = <<>>
    /\ calls = 0
    /\ continues = <<>>
    /\ sleeps = <<>>
    /\ input = <<>>
    /\ readErr = FALSE
    /\ parser = <<>>
    /\ result = <<>>

\* The call of the k-th filter of the configuration on the record.
FilterOne ==
    /\ single = <<>>
    /\ \E k \in 1..Len(o.filters) :
          single' = <<[kind |-> o.filters[k].kind,
                       v |-> callFilter(o.filters[k], subject)]>>
    /\ UNCHANGED <<o, sleeps, driverVars, detectVars, subject, verdict,
                   parseVars, lineVars, bufferVars>>

NextTop == FilterOne \/ FilterCall

SpecTop == InitTop /\ [][NextTop]_vars

\* The test-driver entry points.
TestDrivers ==
    {"testing.RunTests", "testing.(*T).Run", "testing.(*T).Parallel",
     "testing.runFuzzing", "testing.runFuzzTests"}

\* The text begins with the given word.
BeginsWith(text, word) ==
    Len(text) >= Len(word) /\ SubSeq(text, 1, Len(word)) = word

\* C18: the harness wait filter excludes a record exactly when its
\* firstFunction is a test-driver entry point and its state begins with
\* "chan receive".
C18_HarnessWait ==
    (single # <<>> /\ single[1].kind = "isTestStack") =>
        single[1].v = (/\ subject.firstFunction \in TestDrivers
                       /\ BeginsWith(subject.state, "chan receive"))

C18_Witness ==
    /\ single # <<>>
    /\ single[1].kind = "isTestStack"
    /\ single[1].v
    /\ subject.firstFunction = "testing.runFuzzTests"
    /\ subject.state = "chan receive, 2 minutes"

\* What the four default filters exclude.
DefaultExcluded(s) ==
    \/ s.firstFunction \in TestDrivers /\ BeginsWith(s.state, "chan receive")
    \/ s.firstFunction = "runtime.goexit" /\ BeginsWith(s.state, "syscall")
    \/ s.firstFunction \in {"os/signal.signal_recv", "os/signal.loop"}
    \/ Contains(s.fullStack, "runtime.ensureSigM")
    \/ Contains(s.fullStack, "runtime.ReadTrace")

\* The functions named by the IgnoreTopFunction options of a configuration.
Ignored(opts) ==
    {opts.filters[k].f : k \in (Len(DefaultFilters) + 1)..Len(opts.filters)}

\* C19: under the default configuration a record no default filter matches
\* is a candidate, and with IgnoreTopFunction(f) the records excluded are
\* those the defaults exclude and those whose firstFunction is exactly f.
C19_IgnoreTopFunction ==
    verdict # <<>> =>
        verdict[1] = (\/ DefaultExcluded(subject)
                      \/ subject.firstFunction \in Ignored(o))

C19_Witness ==
    /\ verdict = <<TRUE>>
    /\ Ignored(o) = {"main.worker"}
    /\ subject.firstFunction = "main.worker"
    /\ subject.state = "chan send"
    /\ ~DefaultExcluded(subject)

-----------------------------------------------------------------------------
(* The options driver: buildOpts on a sequence of options *)

\* Number of options handed to buildOpts.
MaxOptions == 3

\* The options: retry bounds, a sleep ceiling, filters, and configurations
\* built earlier, which the package hands on as options.
BuildOptions ==
    {MaxRetryAttempts(0), MaxRetryAttempts(5), MaxSleepInterval(7000),
     IgnoreTopFunction("main.a"), IgnoreTopFunction("main.b"),
     asOption(buildOpts(<<>>)),
     asOption(buildOpts(<<IgnoreTopFunction("main.b"), MaxRetryAttempts(3)>>))}

RECURSIVE OptionLists(_)
OptionLists(n) ==
    IF n = 0 THEN {<<>>}
    ELSE OptionLists(n - 1)
         \cup {Append(os, opt) : os \in OptionLists(n - 1), opt \in BuildOptions}

InitBuild ==
    /\ optionList \in OptionLists(MaxOptions)
    /\ o = buildOpts(<<>>)
    /\ pc = "options"
    /\ calls = 0
    /\ continues = <<>>
    /\ sleeps = <<>>
    /\ units = <<>>
    /\ nextId = 0
    /\ cur = 0
    /\ stacks = <<>>
    /\ attempt = 0
    /\ snapshots = 0
    /\ last = {}
    /\ report = <<>>
    /\ prev = "none"
    /\ subject = <<>>
    /\ verdict = <<>>
    /\ single = <<>>
    /\ input = <<>>
    /\ readErr = FALSE
    /\ parser = <<>>
    /\ result = <<>>
    /\ captured = <<>>
    /\ asked = <<>>
    /\ lineIn = ""
    /\ parsed = <<>>
    /\ bufSize = 0
    /\ dumpLen = 0
    /\ returned = <<>>

\* buildOpts(options...)
BuildCall ==
    /\ pc = "options"
    /\ o' = buildOpts(optionList)
    /\ pc' = "built"
    /\ UNCHANGED <<sleeps, driverVars, units, nextId, optionList, cur, stacks,
                   attempt, snapshots, last, report, prev, filterVars,
                   parseVars, lineVars, bufferVars>>

NextBuild == BuildCall

SpecBuild == InitBuild /\ [][NextBuild]_vars

\* The four default filters, in their order.
DefaultFour ==
    << [kind |-> "isTestStack"], [kind |-> "isSyscallStack"],
       [kind |-> "isStdLibStack"], [kind |-> "isTraceStack"] >>

\* The filters of the filter options of a list, in the order of the list.
RECURSIVE UserFilters(_)
UserFilters(os) ==
    IF os = <<>> THEN <<>>
    ELSE IF os[1].op = "addFilter" THEN <<os[1].f>> \o UserFilters(Tail(os))
    ELSE UserFilters(Tail(os))

\* The place of the last option of a list whose kind is in ops, 0 if none.
LastOf(os, ops) ==
    IF \E k \in 1..Len(os) : os[k].op \in ops
    THEN CHOOSE k \in 1..Len(os) :
            /\ os[k].op \in ops
            /\ \A j \in (k + 1)..Len(os) : os[j].op \notin ops
    ELSE 0

RetriesOf(opt) == IF opt.op = "opts" THEN opt.o.maxRetries ELSE opt.num
SleepOf(opt) == IF opt.op = "opts" THEN opt.o.maxSleep ELSE opt.d

====
